---- MODULE Spec2Model ----
(***************************************************************************)
(* Implicit interval tree (iit) and implicit interval tree with            *)
(* interpolation index (iitii), src/iitii.h.                               *)
(*                                                                         *)
(* Pos is a 32-bit signed integer, or a double holding an integer value   *)
(* (pos_type); Rank and Level are naturals.                                *)
(* A rank r of the C++ node array is position r+1 of a TLA+ sequence.      *)
(* An Item is a record [beg, end, id]; id is the opaque payload.           *)
(* The regression of train() is carried out in exact rational arithmetic   *)
(* (numerators over a common positive denominator).                        *)
(***************************************************************************)
EXTENDS Integers, Sequences, FiniteSets, Bags, TLC

\* ----------------------------------------------------------------- bounds
\* positions of stored items range over 0..MaxPos
MaxPos == 2
\* at most MaxItems items are added to a builder whose index is queried
MaxItems == 5
\* payloads range over 1..MaxPayload where the order of a build is compared
MaxPayload == 2
\* at most MaxTaggedItems items are added where the order of a build is compared
MaxTaggedItems == 4
\* the largest index trained on a skewed set of items holds MaxSkewedItems
MaxSkewedItems == 40
\* build() of iitii is called with domains_ in 0..MaxDomains
MaxDomains == 2
\* at most MaxCalls overlap calls are made on an index
MaxCalls == 2
\* NumThreads threads call overlap concurrently on one index
NumThreads == 2
\* the index the threads share holds at most MaxSharedItems items
MaxSharedItems == 3
\* the largest index whose augmenting values are compared holds
\* MaxAugmentedItems items
MaxAugmentedItems == 13

\* ------------------------------------------------------ program constants
\* std::numeric_limits<Pos>::max(), also Node::npos
PosMax == 2147483647
\* std::numeric_limits<Pos>::min()
PosMin == (-PosMax) - 1
\* nrank, std::numeric_limits<Rank>::max(); -1 stands for (size_t)-1
nrank == -1

\* -------------------------------------------------------- position type
\* the Pos template argument the classes are instantiated with: "int32"
\* (a 32-bit signed integer) or "double"
VARIABLE pos_type

PosTypes == {"int32", "double"}

\* std::numeric_limits<double>::min(), the smallest positive normal double.
\* The doubles of the model are the integers, with lowest() and max()
\* standing as PosMin and PosMax; min() is no integer and is written as
\* PosMin + 1, and PosLeq gives it its place between 0 and 1.
DoubleMin == PosMin + 1

\* std::numeric_limits<Pos>::min() of the instantiation
numeric_min == IF pos_type = "double" THEN DoubleMin ELSE PosMin

\* a <= b on Pos values of the instantiation
PosLeq(a, b) ==
    IF pos_type = "double" /\ a = DoubleMin THEN b = DoubleMin \/ b >= 1
    ELSE IF pos_type = "double" /\ b = DoubleMin THEN a <= 0
    ELSE a <= b

Positions == 0..MaxPos
QPositions == 0..(MaxPos + 1)
Item(b, e, p) == [beg |-> b, end |-> e, id |-> p]
\* the items with beg <= end and a payload of 1..maxp
ValidItems(maxp) ==
    {it \in {Item(b, e, p) : b \in Positions, e \in Positions, p \in 1..maxp} :
        it.beg <= it.end}

Max(a, b) == IF a >= b THEN a ELSE b
Min(a, b) == IF a <= b THEN a ELSE b

RECURSIVE Pow2(_)
Pow2(k) == IF k = 0 THEN 1 ELSE 2 * Pow2(k - 1)

\* ------------------------------------------------------ implicit geometry
\* level(node): the number of 1 bits below the lowest 0 bit
RECURSIVE level(_)
level(node) == IF node % 2 = 0 THEN 0 ELSE 1 + level(node \div 2)

\* parent(node), nrank at the root
parent(node, root) ==
    IF node = root THEN nrank
    ELSE LET lv == level(node)
             ofs == Pow2(lv)
         IN IF (node \div Pow2(lv + 1)) % 2 = 1 THEN node - ofs ELSE node + ofs

left(node) ==
    LET lv == level(node) IN IF lv > 0 THEN node - Pow2(lv - 1) ELSE nrank

right(node) ==
    LET lv == level(node) IN IF lv > 0 THEN node + Pow2(lv - 1) ELSE nrank

leftmost_child(subtree) == subtree - (Pow2(level(subtree)) - 1)

rightmost_child(subtree) == subtree + (Pow2(level(subtree)) - 1)

\* the loop of the constructor that computes root_level and full_size
RECURSIVE GeometryLoop(_, _, _)
GeometryLoop(rl, fs, n) ==
    IF fs < n THEN GeometryLoop(rl + 1, Pow2(rl + 2) - 1, n)
    ELSE [root_level |-> rl, full_size |-> fs, root |-> Pow2(rl) - 1]

Geometry(n) == GeometryLoop(0, 0, n)

\* ------------------------------------------------------------------ nodes
\* iit_node_base(item): inside_max_end starts as end(item);
\* iitii_node(item): outside_max_end starts as numeric_limits<Pos>::min()
Node(it) == [beg |-> it.beg, end |-> it.end, id |-> it.id,
             inside_max_end |-> it.end, outside_max_end |-> numeric_min]

ItemOf(n) == [beg |-> n.beg, end |-> n.end, id |-> n.id]

\* a comparison of beg alone
NodeLessBegOnly(a, b) == a.beg < b.beg

\* iit_node_base::operator<
NodeLess(a, b) == IF a.beg = b.beg THEN a.end < b.end ELSE a.beg < b.beg

\* the places at which x may stand in a sequence s sorted by NodeLess
Inserts(x, s) ==
    {SubSeq(s, 1, k) \o <<x>> \o SubSeq(s, k + 1, Len(s)) :
        k \in {j \in 0..Len(s) :
                 /\ \A i \in 1..j : ~NodeLess(x, s[i])
                 /\ \A i \in (j + 1)..Len(s) : ~NodeLess(s[i], x)}}

\* std::sort(nodes.begin(), nodes.end()): the order of nodes that compare
\* equivalent is unspecified, so every arrangement sorted by operator< is a
\* possible outcome
RECURSIVE SortOutcomes(_)
SortOutcomes(ns) ==
    IF ns = <<>> THEN {<<>>}
    ELSE UNION {Inserts(Head(ns), s) : s \in SortOutcomes(Tail(ns))}

\* the path from the rightmost real leaf up to the root
RECURSIVE BorderPath(_, _)
BorderPath(path, root) ==
    IF path[Len(path)] = root THEN path
    ELSE BorderPath(Append(path, parent(path[Len(path)], root)), root)

RightmostRealLeaf(n) == n - (2 - (n % 2))

right_border_nodes(n, root) == BorderPath(<<RightmostRealLeaf(n)>>, root)

\* the inner loop body with an imaginary right child left out of the maximum
IndexNodeNoBorder(st, n, lv, border) ==
    LET ns == st.nodes
        ime0 == Max(ns[n + 1].end, ns[left(n) + 1].inside_max_end)
        ime == IF right(n) < Len(ns)
               THEN Max(ime0, ns[right(n) + 1].inside_max_end)
               ELSE ime0
    IN [nodes |-> [ns EXCEPT ![n + 1].inside_max_end = ime],
        right_border_ime |-> IF n = border[lv + 1] THEN ime
                             ELSE st.right_border_ime]

\* the body of the inner loop of the bottom-up indexing, for node n of level lv
IndexNode(st, n, lv, border) ==
    LET ns == st.nodes
        ime0 == Max(ns[n + 1].end, ns[left(n) + 1].inside_max_end)
        ime == IF right(n) < Len(ns)
               THEN Max(ime0, ns[right(n) + 1].inside_max_end)
               ELSE Max(ime0, st.right_border_ime)
    IN [nodes |-> [ns EXCEPT ![n + 1].inside_max_end = ime],
        right_border_ime |-> IF n = border[lv + 1] THEN ime
                             ELSE st.right_border_ime]

\* the inner loop: nodes n, n + step, ... of level lv below nodes.size()
RECURSIVE IndexLevel(_, _, _, _)
IndexLevel(st, n, lv, border) ==
    IF n >= Len(st.nodes) THEN st
    ELSE IndexLevel(IndexNode(st, n, lv, border), n + Pow2(lv + 1), lv, border)

\* the outer loop: levels lv..root_level
RECURSIVE IndexLevels(_, _, _, _)
IndexLevels(st, lv, root_level, border) ==
    IF lv > root_level THEN st
    ELSE IndexLevels(IndexLevel(st, Pow2(lv) - 1, lv, border),
                     lv + 1, root_level, border)

\* iit_base::iit_base after the sort: sorted is the sorted node array
BaseIndex(sorted) ==
    LET g == Geometry(Len(sorted))
    IN IF Len(sorted) = 0 THEN sorted
       ELSE LET border == right_border_nodes(Len(sorted), g.root)
                st0 == [nodes |-> sorted,
                        right_border_ime |-> sorted[border[1] + 1].inside_max_end]
            IN IndexLevels(st0, 1, g.root_level, border).nodes

\* ------------------------------------------------------------------- scan
\* n.inside_max_end > qbeg: something in the subtree extends into the query
SubtreeReaches(n, qbeg) == n.inside_max_end > qbeg

\* a node that begins where the query ends taken as not past it
NotPastQueryClosed(n, qend) == n.beg <= qend

\* nbeg < qend: the node is not already past the query
NotPastQuery(n, qend) == n.beg < qend

\* a node that ends where the query begins taken as overlapping it
ReachesQueryClosed(n, qbeg) == n.end >= qbeg

\* n.end() > qbeg: the node overlaps the query
ReachesQuery(n, qbeg) == n.end > qbeg

\* iit_base::scan: [cost, ans] where ans holds the items appended
RECURSIVE scan(_, _, _, _)
scan(ns, subtree, qbeg, qend) ==
    IF subtree = nrank THEN [cost |-> 0, ans |-> <<>>]
    ELSE IF subtree >= Len(ns)
    THEN LET l == scan(ns, left(subtree), qbeg, qend)
         IN [cost |-> 1 + l.cost, ans |-> l.ans]
    ELSE LET n == ns[subtree + 1]
         IN IF SubtreeReaches(n, qbeg)
            THEN LET l == scan(ns, left(subtree), qbeg, qend)
                 IN IF NotPastQuery(n, qend)
                    THEN LET r == scan(ns, right(subtree), qbeg, qend)
                             me == IF ReachesQuery(n, qbeg) THEN <<ItemOf(n)>>
                                   ELSE <<>>
                         IN [cost |-> 1 + l.cost + r.cost,
                             ans |-> l.ans \o me \o r.ans]
                    ELSE [cost |-> 1 + l.cost, ans |-> l.ans]
            ELSE [cost |-> 1, ans |-> <<>>]

\* ------------------------------------------------------- outside augment
\* running_max_end[leq]: the maximum end over ranks 0..leq
RECURSIVE running_max_end(_, _)
running_max_end(ns, leq) ==
    IF leq = 0 THEN ns[1].end
    ELSE Max(running_max_end(ns, leq - 1), ns[leq + 1].end)

\* the while loop that walks leq down over the nodes whose beg equals beg
RECURSIVE WalkLeq(_, _, _)
WalkLeq(ns, leq, beg) ==
    IF ns[leq + 1].beg = beg /\ leq # 0 THEN WalkLeq(ns, leq - 1, beg) ELSE leq

\* outside_max_end taken from rank l-1 without the walk over the ties on beg
OutsideMaxEndNoWalk(ns, n) ==
    LET l == leftmost_child(n)
    IN IF l > 0 /\ ns[l].beg < ns[n + 1].beg
       THEN running_max_end(ns, l - 1)
       ELSE numeric_min

\* the value the constructor of iitii stores in nodes[n].outside_max_end
OutsideMaxEnd(ns, n) ==
    LET l == leftmost_child(n)
    IN IF l > 0
       THEN LET leq == WalkLeq(ns, l - 1, ns[n + 1].beg)
            IN IF ns[leq + 1].beg < ns[n + 1].beg
               THEN running_max_end(ns, leq)
               ELSE numeric_min
       ELSE ns[n + 1].outside_max_end

FillOutsideMaxEnd(ns) ==
    [i \in 1..Len(ns) |-> [ns[i] EXCEPT !.outside_max_end = OutsideMaxEnd(ns, i - 1)]]

\* outside_min_beg without the corner case of a tie on beg at rank l-1
outside_min_beg_no_tie(ns, subtree) ==
    LET r == rightmost_child(subtree)
    IN IF r < Len(ns) - 1 THEN ns[r + 2].beg ELSE PosMax

\* outside_min_beg that takes beg of the rightmost child in place of beg of
\* the node ranked one higher
outside_min_beg_at_r(ns, subtree) ==
    LET beg == ns[subtree + 1].beg
        l == leftmost_child(subtree)
        r == rightmost_child(subtree)
    IN IF l # 0 /\ ns[l].beg = beg THEN beg
       ELSE IF r < Len(ns) - 1 THEN ns[r + 1].beg ELSE PosMax

\* iitii::outside_min_beg
outside_min_beg(ns, subtree) ==
    LET beg == ns[subtree + 1].beg
        l == leftmost_child(subtree)
        r == rightmost_child(subtree)
    IN IF l # 0 /\ ns[l].beg = beg THEN beg
       ELSE IF r < Len(ns) - 1 THEN ns[r + 2].beg ELSE PosMax

\* ------------------------------------------------------------------ model
\* iitii::which_domain
which_domain(beg, min_beg, domains, domain_size) ==
    IF beg < min_beg THEN 0
    ELSE Min(domains - 1, (beg - min_beg) \div domain_size)

RECURSIVE SumSeq(_)
SumSeq(s) == IF s = <<>> THEN 0 ELSE Head(s) + SumSeq(Tail(s))

Abs(a) == IF a >= 0 THEN a ELSE -a

\* a NaN pair of regress, and a NaN row of parameters
NaNModel == [finite |-> FALSE, bnum |-> 0, mnum |-> 0, den |-> 1, lv |-> 0]

\* regress(points): (intercept, slope) = (bnum / den, mnum / den), den > 0;
\* points is a sequence of <<x, y>>
regress(points) ==
    IF points = <<>> THEN NaNModel
    ELSE LET n == Len(points)
             sum_x == SumSeq([i \in 1..n |-> points[i][1]])
             sum_y == SumSeq([i \in 1..n |-> points[i][2]])
             sum_xy == SumSeq([i \in 1..n |-> points[i][1] * points[i][2]])
             sum_xx == SumSeq([i \in 1..n |-> points[i][1] * points[i][1]])
             \* cov = covn / n and var = varn / n
             covn == n * sum_xy - sum_x * sum_y
             varn == n * sum_xx - sum_x * sum_x
         IN IF varn = 0
            THEN [finite |-> TRUE, bnum |-> 0, mnum |-> 0, den |-> 1, lv |-> 0]
            ELSE [finite |-> TRUE, bnum |-> sum_y * varn - covn * sum_x,
                  mnum |-> n * covn, den |-> n * varn, lv |-> 0]

\* n * den * mean_absolute_residual(points, b, m), for points # <<>>
ResidualSum(points, w) ==
    SumSeq([i \in 1..Len(points) |->
              Abs(points[i][2] * w.den - (w.mnum * points[i][1] + w.bnum))])

\* the acceptance test with the whole tree height as the bound
AcceptedUpToHeight(points, w, root_level) ==
    /\ w.finite
    /\ ResidualSum(points, w) <= Pow2(root_level) * Len(points) * w.den

\* the acceptance test of train(): both weights finite and
\* mean_absolute_residual <= double(1 << (root_level / 2))
Accepted(points, w, root_level) ==
    /\ w.finite
    /\ ResidualSum(points, w) <= Pow2(root_level \div 2) * Len(points) * w.den

\* the training points of one domain: <<beg, ofs>> of the nodes of level lv
RECURSIVE TrainingPoints(_, _, _, _, _, _, _)
TrainingPoints(ns, r, ofs, lv, which, min_beg, dom) ==
    IF r >= Len(ns) THEN <<>>
    ELSE LET rest == TrainingPoints(ns, r + Pow2(lv + 1), ofs + 1, lv, which,
                                    min_beg, dom)
         IN IF which_domain(ns[r + 1].beg, min_beg, dom.domains, dom.domain_size)
                 = which
            THEN <<<<ns[r + 1].beg, ofs>>>> \o rest
            ELSE rest

\* iitii::train(lv): the rows of parameters, one per domain
train(ns, lv, root_level, min_beg, dom) ==
    [d \in 1..dom.domains |->
        LET points == TrainingPoints(ns, Pow2(lv) - 1, 0, lv, d - 1, min_beg, dom)
            w == regress(points)
        IN IF Accepted(points, w, root_level)
           THEN [w EXCEPT !.lv = lv]
           ELSE NaNModel]

\* roundf of num / den (den > 0), then std::max(0.0f, .)
RoundedOffset(num, den) ==
    IF num <= 0 THEN 0 ELSE (2 * num + den) \div (2 * den)

\* iitii::predict_leaf
predict_leaf(qbeg, ns, min_beg, dom, parameters) ==
    LET which == which_domain(qbeg, min_beg, dom.domains, dom.domain_size)
        p == parameters[which + 1]
    IN IF ~p.finite THEN nrank
       ELSE LET ofs == RoundedOffset(p.bnum + p.mnum * qbeg, p.den)
                r == Pow2(p.lv) * (2 * ofs + 1) - 1
            IN IF r < Len(ns) THEN r ELSE RightmostRealLeaf(Len(ns))

\* the climb loop of iitii::overlap: [subtree, climb_cost] at its exit
RECURSIVE Climb(_, _, _, _, _, _)
Climb(ns, root, subtree, climb_cost, qbeg, qend) ==
    IF /\ subtree # root
       /\ \/ subtree >= Len(ns)
          \/ qbeg < ns[subtree + 1].outside_max_end
          \/ outside_min_beg(ns, subtree) < qend
    THEN Climb(ns, root, parent(subtree, root), climb_cost + 1, qbeg, qend)
    ELSE [subtree |-> subtree, climb_cost |-> climb_cost]

\* ------------------------------------------------------------------ state
VARIABLES
    buffer,            \* iit_builder_base::nodes_
    built,             \* "no", or the class of the index built: "iit", "iitii"
    nodes,             \* iit_base::nodes
    root_level,        \* iit_base::root_level
    full_size,         \* iit_base::full_size
    root,              \* iit_base::root
    domains,           \* iitii::domains
    domain_size,       \* iitii::domain_size
    min_beg,           \* iitii::min_beg
    parameters,        \* iitii::parameters, one row per domain
    queries,           \* iitii::queries
    total_climb_cost,  \* iitii::total_climb_cost
    out,               \* the caller's vector passed as ans
    last,              \* the last sequential call: its arguments and what it returned
    first,             \* the first sequential call: its arguments and what it returned
    calls,             \* history: the number of sequential calls that returned
    climbs,            \* history: how many of them took the climb path
    climb_sum,         \* history: the sum of their climb costs
    aborted,           \* an assert failed in a build that keeps asserts
    threads            \* the position of each concurrent caller

index == <<nodes, root_level, full_size, root, domains, domain_size, min_beg,
           parameters>>
counters == <<queries, total_climb_cost>>
history == <<out, last, first, calls, climbs, climb_sum>>
vars == <<pos_type, buffer, built, index, counters, history, aborted, threads>>

Threads == 1..NumThreads

NoCall == [path |-> "none", qbeg |-> 0, qend |-> 0, cost |-> 0,
           prediction |-> nrank, subtree |-> nrank, climb_cost |-> 0, out |-> <<>>]

Idle == [pc |-> "idle", path |-> "none", climb_cost |-> 0, reg |-> 0]

\* the index object as a record of its members
Ix == [nodes |-> nodes, root_level |-> root_level, full_size |-> full_size,
       root |-> root, domains |-> domains, domain_size |-> domain_size,
       min_beg |-> min_beg, parameters |-> parameters]

\* the members of iit_base after its constructor, for the sorted array
\* the sort left
BaseFields(sorted) ==
    LET g == Geometry(Len(sorted))
    IN [nodes |-> BaseIndex(sorted), root_level |-> g.root_level,
        full_size |-> g.full_size, root |-> g.root,
        domains |-> 0, domain_size |-> PosMax, min_beg |-> PosMax,
        parameters |-> <<>>]

\* the members of iitii after its constructor: domains_ is the argument of
\* build()
IitiiFields(sorted, domains_) ==
    LET base == BaseFields(sorted)
        d == Max(1, domains_)
        n == Len(sorted)
        mb == IF n > 0 THEN base.nodes[1].beg ELSE PosMax
        ds == IF n > 0 THEN 1 + ((base.nodes[n].beg - mb) \div d) ELSE PosMax
        ns == IF n > 0 THEN FillOutsideMaxEnd(base.nodes) ELSE base.nodes
        dom == [domains |-> d, domain_size |-> ds]
    IN [nodes |-> ns, root_level |-> base.root_level,
        full_size |-> base.full_size, root |-> base.root,
        domains |-> d, domain_size |-> ds, min_beg |-> mb,
        parameters |-> IF n > 0 THEN train(ns, 0, base.root_level, mb, dom)
                       ELSE [i \in 1..d |-> NaNModel]]

Init ==
    /\ pos_type = "int32"
    /\ buffer = <<>>
    /\ built = "no"
    /\ nodes = <<>>
    /\ root_level = 0
    /\ full_size = 0
    /\ root = nrank
    /\ domains = 0
    /\ domain_size = PosMax
    /\ min_beg = PosMax
    /\ parameters = <<>>
    /\ queries = 0
    /\ total_climb_cost = 0
    /\ out = <<>>
    /\ last = NoCall
    /\ first = NoCall
    /\ calls = 0
    /\ climbs = 0
    /\ climb_sum = 0
    /\ aborted = FALSE
    /\ threads = [t \in Threads |-> Idle]

\* ---------------------------------------------------------------- builder
\* iit_builder_base::add(const Item&); cap bounds the items a builder takes
Add(it, cap) ==
    /\ built = "no"
    /\ Len(buffer) < cap
    /\ buffer' = Append(buffer, Node(it))
    /\ UNCHANGED <<built, index, counters, history, aborted, threads, pos_type>>

\* iit_builder_base::add(begin, end): std::for_each(begin, end, add)
AddRange(its, cap) ==
    /\ built = "no"
    /\ Len(buffer) + Len(its) <= cap
    /\ buffer' = buffer \o [i \in 1..Len(its) |-> Node(its[i])]
    /\ UNCHANGED <<built, index, counters, history, aborted, threads, pos_type>>

\* iit::builder::build(): nodes_ is moved into the index and sorted there
BuildIIT ==
    /\ built = "no"
    /\ \E sorted \in SortOutcomes(buffer) :
         \E f \in {BaseFields(sorted)} :
            /\ nodes' = f.nodes
            /\ root_level' = f.root_level
            /\ full_size' = f.full_size
            /\ root' = f.root
    /\ built' = "iit"
    /\ buffer' = <<>>
    /\ UNCHANGED <<domains, domain_size, min_beg, parameters, counters, history,
                   aborted, threads, pos_type>>

\* iitii::builder::build(domains_)
BuildIITII(domains_) ==
    /\ built = "no"
    /\ \E sorted \in SortOutcomes(buffer) :
         \E f \in {IitiiFields(sorted, domains_)} :
            /\ nodes' = f.nodes
            /\ root_level' = f.root_level
            /\ full_size' = f.full_size
            /\ root' = f.root
            /\ domains' = f.domains
            /\ domain_size' = f.domain_size
            /\ min_beg' = f.min_beg
            /\ parameters' = f.parameters
    /\ built' = "iitii"
    /\ buffer' = <<>>
    /\ UNCHANGED <<counters, history, aborted, threads, pos_type>>

\* ---------------------------------------------------------------- queries
\* ans.clear()
Cleared(ans) == <<>>

\* iit_base::overlap(qbeg, qend, ans) on index ix: what the call returns and
\* leaves in ans
iit_overlap(ix, qbeg, qend, ans) ==
    LET r == scan(ix.nodes, ix.root, qbeg, qend)
    IN [NoCall EXCEPT !.path = "root", !.qbeg = qbeg, !.qend = qend,
                      !.subtree = ix.root, !.cost = r.cost,
                      !.out = Cleared(ans) \o r.ans]

\* the cumulative counter returned in place of this call's climb cost
ClimbReturnCumulative(scan_cost, climb_cost) ==
    scan_cost + total_climb_cost + climb_cost

\* the value iitii::overlap returns
ClimbReturn(scan_cost, climb_cost) == scan_cost + climb_cost

\* the climb of iitii::overlap from leaf prediction and the scan after it
ClimbAndScan(ix, prediction, qbeg, qend, ans) ==
    LET c == Climb(ix.nodes, ix.root, prediction, 0, qbeg, qend)
        r == scan(ix.nodes, c.subtree, qbeg, qend)
    IN [path |-> "climb", qbeg |-> qbeg, qend |-> qend,
        cost |-> ClimbReturn(r.cost, c.climb_cost),
        prediction |-> prediction, subtree |-> c.subtree,
        climb_cost |-> c.climb_cost, out |-> Cleared(ans) \o r.ans]

\* iitii::overlap(qbeg, qend, ans) on index ix: what the call returns and
\* leaves in ans
iitii_overlap(ix, qbeg, qend, ans) ==
    LET prediction == predict_leaf(qbeg, ix.nodes, ix.min_beg,
                                   [domains |-> ix.domains,
                                    domain_size |-> ix.domain_size],
                                   ix.parameters)
    IN IF prediction = nrank
       THEN iit_overlap(ix, qbeg, qend, ans)
       ELSE ClimbAndScan(ix, prediction, qbeg, qend, ans)

\* assert(subtree < full_size) at the entry of scan; the ranks scan goes on
\* to are children of a rank below full_size and are below full_size too
ScanAssert(subtree) == subtree < full_size

\* a sequential call has returned r
Returned(r) ==
    /\ out' = r.out
    /\ last' = r
    /\ first' = IF calls = 0 THEN r ELSE first
    /\ calls' = calls + 1
    /\ climbs' = IF r.path = "climb" THEN climbs + 1 ELSE climbs
    /\ climb_sum' = climb_sum + r.climb_cost

\* an assert fails and the build keeps asserts: the process aborts
Abort ==
    /\ aborted' = TRUE
    /\ UNCHANGED <<buffer, built, index, counters, history, threads, pos_type>>

CanCall(class) ==
    /\ built = class
    /\ ~aborted
    /\ calls < MaxCalls
    /\ \A t \in Threads : threads[t].pc = "idle"

\* iit::overlap(qbeg, qend, out)
OverlapIIT(qbeg, qend) ==
    /\ CanCall("iit")
    /\ \E r \in {iit_overlap(Ix, qbeg, qend, out)} :
          \/ /\ ~ScanAssert(r.subtree)
             /\ Abort
          \/ /\ Returned(r)
             /\ UNCHANGED <<buffer, built, index, counters, aborted, threads, pos_type>>

\* the counters updated before the test of the prediction
CountersOnEveryCall(r) == <<queries + 1, total_climb_cost + r.climb_cost>>

\* self->queries++; self->total_climb_cost += climb_cost, on the climb path
\* only: the fallback to super::overlap returns before them
CountersAfter(r) ==
    IF r.path = "climb"
    THEN <<queries + 1, total_climb_cost + r.climb_cost>>
    ELSE <<queries, total_climb_cost>>

\* iitii::overlap(qbeg, qend, out), called while no other call is running
OverlapIITII(qbeg, qend) ==
    /\ CanCall("iitii")
    /\ \E r \in {iitii_overlap(Ix, qbeg, qend, out)} :
          \/ /\ ~ScanAssert(r.subtree)
             /\ Abort
          \/ /\ Returned(r)
             /\ queries' = CountersAfter(r)[1]
             /\ total_climb_cost' = CountersAfter(r)[2]
             /\ UNCHANGED <<buffer, built, index, aborted, threads, pos_type>>

Next ==
    \/ \E it \in ValidItems(1) : Add(it, MaxItems)
    \/ \E its \in [1..2 -> ValidItems(1)] : AddRange(its, MaxItems)
    \/ BuildIIT
    \/ \E d \in 0..MaxDomains : BuildIITII(d)
    \/ \E qbeg \in QPositions, qend \in QPositions : OverlapIIT(qbeg, qend)
    \/ \E qbeg \in QPositions, qend \in QPositions : OverlapIITII(qbeg, qend)

Spec == Init /\ [][Next]_vars

\* the builder alone, fed items that share (beg, end) and differ in payload
NextBuild ==
    \/ \E it \in ValidItems(MaxPayload) : Add(it, MaxTaggedItems)
    \/ \E its \in [1..2 -> ValidItems(MaxPayload)] : AddRange(its, MaxTaggedItems)
    \/ BuildIIT
    \/ \E d \in 0..MaxDomains : BuildIITII(d)

SpecBuild == Init /\ [][NextBuild]_vars

\* a builder that was fed n items of which the last k begin at MaxPos and
\* the others at 0
SkewedBuffer(n, k) ==
    [i \in 1..n |-> Node(IF i <= n - k THEN Item(0, MaxPos, 1)
                          ELSE Item(MaxPos, MaxPos, 1))]

InitSkewed ==
    /\ pos_type = "int32"
    /\ \E n \in 1..MaxSkewedItems, k \in 0..2 :
          /\ k <= n
          /\ buffer = SkewedBuffer(n, k)
    /\ built = "no"
    /\ nodes = <<>>
    /\ root_level = 0
    /\ full_size = 0
    /\ root = nrank
    /\ domains = 0
    /\ domain_size = PosMax
    /\ min_beg = PosMax
    /\ parameters = <<>>
    /\ queries = 0
    /\ total_climb_cost = 0
    /\ out = <<>>
    /\ last = NoCall
    /\ first = NoCall
    /\ calls = 0
    /\ climbs = 0
    /\ climb_sum = 0
    /\ aborted = FALSE
    /\ threads = [t \in Threads |-> Idle]

NextSkewed ==
    \/ \E d \in 0..MaxDomains : BuildIITII(d)
    \/ \E qbeg \in QPositions, qend \in QPositions : OverlapIITII(qbeg, qend)

\* training and queries on indexes large enough for a regression to be
\* rejected for its residuals
SpecSkewed == InitSkewed /\ [][NextSkewed]_vars

\* ------------------------------------------------------ concurrent calls
\* a built iitii index of 1..MaxSharedItems items that threads share
InitShared ==
    /\ pos_type = "int32"
    /\ \E n \in 1..MaxSharedItems :
         \E its \in [1..n -> ValidItems(1)], d \in 1..MaxDomains :
            \E sorted \in SortOutcomes([i \in 1..n |-> Node(its[i])]) :
               \E f \in {IitiiFields(sorted, d)} :
                  /\ nodes = f.nodes
                  /\ root_level = f.root_level
                  /\ full_size = f.full_size
                  /\ root = f.root
                  /\ domains = f.domains
                  /\ domain_size = f.domain_size
                  /\ min_beg = f.min_beg
                  /\ parameters = f.parameters
    /\ buffer = <<>>
    /\ built = "iitii"
    /\ queries = 0
    /\ total_climb_cost = 0
    /\ out = <<>>
    /\ last = NoCall
    /\ first = NoCall
    /\ calls = 0
    /\ climbs = 0
    /\ climb_sum = 0
    /\ aborted = FALSE
    /\ threads = [t \in Threads |-> Idle]

\* thread t enters iitii::overlap(qbeg, qend, ans) with a vector of its own
\* and runs it up to the update of the counters; the fallback to
\* super::overlap returns without touching them
ThreadCall(t, qbeg, qend) ==
    /\ built = "iitii"
    /\ ~aborted
    /\ threads[t].pc = "idle"
    /\ \E r \in {iitii_overlap(Ix, qbeg, qend, <<>>)} :
          threads' = [threads EXCEPT ![t] =
                        [pc |-> IF r.path = "climb" THEN "load_queries" ELSE "done",
                         path |-> r.path, climb_cost |-> r.climb_cost, reg |-> 0]]
    /\ UNCHANGED <<buffer, built, index, counters, history, aborted, pos_type>>

\* self->queries++ on a plain size_t: the load
LoadQueries(t) ==
    /\ threads[t].pc = "load_queries"
    /\ threads' = [threads EXCEPT ![t].pc = "store_queries", ![t].reg = queries]
    /\ UNCHANGED <<buffer, built, index, counters, history, aborted, pos_type>>

\* self->queries++: the store
StoreQueries(t) ==
    /\ threads[t].pc = "store_queries"
    /\ queries' = threads[t].reg + 1
    /\ threads' = [threads EXCEPT ![t].pc = "load_total"]
    /\ UNCHANGED <<buffer, built, index, total_climb_cost, history, aborted, pos_type>>

\* self->total_climb_cost += climb_cost: the load
LoadTotal(t) ==
    /\ threads[t].pc = "load_total"
    /\ threads' = [threads EXCEPT ![t].pc = "store_total",
                                  ![t].reg = total_climb_cost]
    /\ UNCHANGED <<buffer, built, index, counters, history, aborted, pos_type>>

\* self->total_climb_cost += climb_cost: the store; the scan that follows
\* writes the vector of the thread only, and the call returns
StoreTotal(t) ==
    /\ threads[t].pc = "store_total"
    /\ total_climb_cost' = threads[t].reg + threads[t].climb_cost
    /\ threads' = [threads EXCEPT ![t].pc = "done"]
    /\ UNCHANGED <<buffer, built, index, queries, history, aborted, pos_type>>

NextShared ==
    \/ \E t \in Threads, qbeg \in QPositions, qend \in QPositions :
          ThreadCall(t, qbeg, qend)
    \/ \E t \in Threads : LoadQueries(t)
    \/ \E t \in Threads : StoreQueries(t)
    \/ \E t \in Threads : LoadTotal(t)
    \/ \E t \in Threads : StoreTotal(t)

\* NumThreads threads, each making one call on a shared index
SpecShared == InitShared /\ [][NextShared]_vars

\* ------------------------------------------------------ augmenting values
\* the sequences of n items of payload 1 in an order sorted by (beg, end)
RECURSIVE SortedItems(_)
SortedItems(n) ==
    IF n = 0 THEN {<<>>}
    ELSE {Append(p[1], p[2]) :
            p \in {q \in SortedItems(n - 1) \X ValidItems(1) :
                     n = 1 \/ ~NodeLess(q[2], q[1][n - 1])}}

\* a builder of either instantiation to which 1..MaxAugmentedItems items were
\* added
InitAugmented ==
    /\ pos_type \in PosTypes
    /\ \E n \in 1..MaxAugmentedItems :
         \E its \in SortedItems(n) : buffer = [i \in 1..n |-> Node(its[i])]
    /\ built = "no"
    /\ nodes = <<>>
    /\ root_level = 0
    /\ full_size = 0
    /\ root = nrank
    /\ domains = 0
    /\ domain_size = PosMax
    /\ min_beg = PosMax
    /\ parameters = <<>>
    /\ queries = 0
    /\ total_climb_cost = 0
    /\ out = <<>>
    /\ last = NoCall
    /\ first = NoCall
    /\ calls = 0
    /\ climbs = 0
    /\ climb_sum = 0
    /\ aborted = FALSE
    /\ threads = [t \in Threads |-> Idle]

\* with Pos = double the division of domain_size is a division of doubles,
\* which is the division of the model for one domain only
DomainsArguments == IF pos_type = "double" THEN 0..1 ELSE 0..MaxDomains

NextAugmented ==
    \/ BuildIIT
    \/ \E d \in DomainsArguments : BuildIITII(d)

\* the builds of indexes of up to MaxAugmentedItems items
SpecAugmented == InitAugmented /\ [][NextAugmented]_vars

\* ----------------------------------------------------------------- claims
BagOfSeq(s) ==
    [x \in {s[i] : i \in 1..Len(s)} |-> Cardinality({i \in 1..Len(s) : s[i] = x})]

StoredItems == [i \in 1..Len(nodes) |-> ItemOf(nodes[i])]

\* the stored items x with beg(x) < qend and end(x) > qbeg, as a multiset
StoredOverlapping(qbeg, qend) ==
    BagOfSeq(SelectSeq(StoredItems, LAMBDA x : x.beg < qend /\ x.end > qbeg))

Called == last.path # "none"

RealLeaves == {r \in 0..(Len(nodes) - 1) : r % 2 = 0}

\* C1: after an IIT overlap(qbeg, qend, out) with qbeg < qend, out holds
\* exactly the multiset of the stored items x with beg(x) < qend and
\* end(x) > qbeg, whatever out held before the call.
C1_IitOverlapExact ==
    (built = "iit" /\ Called /\ last.qbeg < last.qend)
        => BagOfSeq(out) = StoredOverlapping(last.qbeg, last.qend)

\* a second IIT call whose result differs from the non-empty result of the
\* first and leaves some stored item out
C1_Witness ==
    /\ built = "iit" /\ calls = 2 /\ last.qbeg < last.qend
    /\ first.out # <<>> /\ out # <<>> /\ out # first.out
    /\ Len(out) < Len(nodes)

\* the IIT index built from the same items
IitOfSameItems == BaseFields([i \in 1..Len(nodes) |-> Node(ItemOf(nodes[i]))])

\* C2: an IITII overlap returns the same multiset of items as the IIT
\* overlap on the same items, for every query and every number of domains,
\* whether the call scans from the root or climbs, and from whichever real
\* leaf the climb starts.
C2_VariantsAgree ==
    (built = "iitii" /\ Called)
        => LET iit == BagOfSeq(iit_overlap(IitOfSameItems, last.qbeg, last.qend,
                                           <<>>).out)
           IN /\ BagOfSeq(out) = iit
              /\ \A leaf \in RealLeaves :
                    BagOfSeq(ClimbAndScan(Ix, leaf, last.qbeg, last.qend,
                                          <<>>).out) = iit

\* an IITII call that climbed, stopped below the root and found something
C2_Witness ==
    /\ built = "iitii" /\ last.path = "climb" /\ last.subtree # root
    /\ out # <<>> /\ Len(out) < Len(nodes)

\* C3: an index built from zero items builds, and every overlap query on it
\* returns zero items and a cost of exactly 0.
C3_EmptyIndexCostZero ==
    (built # "no" /\ Len(nodes) = 0)
        => /\ ~aborted
           /\ Called => (out = <<>> /\ last.cost = 0)

\* C4 as claimed: a query with qbeg >= qend returns an empty result.
C4_InvertedQueryEmpty ==
    (Called /\ last.qbeg >= last.qend) => out = <<>>

\* C4 as amended: a query with qbeg >= qend returns exactly the stored items
\* x with beg(x) < qend and end(x) > qbeg, in IIT and IITII alike.
C4_InvertedQueryResult ==
    (Called /\ last.qbeg >= last.qend)
        => BagOfSeq(out) = StoredOverlapping(last.qbeg, last.qend)

\* a query with qbeg >= qend that returned some of the stored items
C4_Witness ==
    /\ Called /\ last.qbeg >= last.qend
    /\ out # <<>> /\ Len(out) < Len(nodes)

\* C5: after build no overlap call changes the node array, the geometry or
\* the model parameters, and a call that repeats the query of the first call
\* returns the same result sequence and the same cost.
C5_QueriesLeaveIndexUnchanged ==
    [][built # "no" =>
         /\ UNCHANGED <<built, index>>
         /\ (/\ calls' = calls + 1
             /\ first.path # "none"
             /\ last'.qbeg = first.qbeg
             /\ last'.qend = first.qend)
                => (/\ out' = first.out
                    /\ last'.out = first.out
                    /\ last'.cost = first.cost)]_vars

\* the second call repeated the query of the first, climbed and found items
C5_Witness ==
    /\ calls = 2 /\ last.qbeg = first.qbeg /\ last.qend = first.qend
    /\ last.path = "climb" /\ last.climb_cost > 0 /\ out # <<>>
    /\ queries = 2

\* C8 as claimed: after n sequential calls queries = n and total_climb_cost
\* is the sum of their climb costs.
C8_QueriesCountsEveryCall ==
    built = "iitii" => (queries = calls /\ total_climb_cost = climb_sum)

\* C8 as amended: after any sequence of sequential calls queries is the
\* number of the calls that took the climb path (a call answered by the
\* root-scan is not counted) and total_climb_cost is the sum of their climb
\* costs.
C8_QueriesCountsClimbCalls ==
    built = "iitii" => (queries = climbs /\ total_climb_cost = climb_sum)

\* two calls, one answered by the root-scan and one by a climb of cost > 0
C8_Witness ==
    /\ built = "iitii" /\ calls = 2 /\ climbs = 1 /\ total_climb_cost > 0

\* the real ranks outside the subtree of rank st
OutsideRanks(st) ==
    {m \in 0..(Len(nodes) - 1) : m < leftmost_child(st) \/ m > rightmost_child(st)}

\* the subtree the climb stopped at is real, and every real node outside it
\* has beg < beg(subtree) and end <= qbeg, or
\* beg >= outside_min_beg(subtree) >= qend
ExitSufficient(st, qbeg, qend) ==
    /\ st < Len(nodes)
    /\ \A m \in OutsideRanks(st) :
          \/ /\ nodes[m + 1].beg < nodes[st + 1].beg
             /\ nodes[m + 1].end <= qbeg
          \/ /\ nodes[m + 1].beg >= outside_min_beg(nodes, st)
             /\ outside_min_beg(nodes, st) >= qend

\* C10: for every query with qbeg < qend and every real leaf the climb may
\* start from, a climb that stops below the root stops at a real subtree
\* outside which no real node overlaps the query.
C10_ClimbExitSufficient ==
    built = "iitii" =>
        /\ (last.path = "climb" /\ last.qbeg < last.qend /\ last.subtree # root)
              => ExitSufficient(last.subtree, last.qbeg, last.qend)
        /\ calls = 0 =>
              \A qbeg \in QPositions, qend \in QPositions, leaf \in RealLeaves :
                 LET c == Climb(nodes, root, leaf, 0, qbeg, qend)
                 IN (qbeg < qend /\ c.subtree # root)
                       => ExitSufficient(c.subtree, qbeg, qend)

\* a call climbed at least one level and stopped below the root, with real
\* nodes outside the subtree
C10_Witness ==
    /\ built = "iitii" /\ last.path = "climb" /\ last.qbeg < last.qend
    /\ last.subtree # root /\ last.climb_cost > 0
    /\ OutsideRanks(last.subtree) # {}

\* the node array as the builder held it: no augment computed
Unindexed(ns) == [i \in 1..Len(ns) |-> Node(ItemOf(ns[i]))]

\* every order of the elements of s
RECURSIVE Orders(_)
Orders(s) ==
    IF s = <<>> THEN {<<>>}
    ELSE UNION {{SubSeq(t, 1, k) \o <<Head(s)>> \o SubSeq(t, k + 1, Len(t)) :
                    k \in 0..Len(t)} : t \in Orders(Tail(s))}

\* the sorted arrays a build may start from, over every order in which the
\* items of the index may have been added
BuildOutcomes == UNION {SortOutcomes(p) : p \in Orders(Unindexed(nodes))}

\* the index build() makes of a sorted array, of the class and with the
\* domains of the index built
IndexOf(sorted) ==
    IF built = "iit" THEN BaseFields(sorted) ELSE IitiiFields(sorted, domains)

OverlapOf(ix, qbeg, qend) ==
    IF built = "iit" THEN iit_overlap(ix, qbeg, qend, <<>>)
    ELSE iitii_overlap(ix, qbeg, qend, <<>>)

\* C6 as claimed: whatever the order in which the items were added, build
\* produces the same index: the same node array rank by rank, item and
\* augments.
C6_OrderIrrelevant ==
    built # "no" => \A sorted \in BuildOutcomes : IndexOf(sorted) = Ix

KeysOf(ns) == [i \in 1..Len(ns) |-> [ns[i] EXCEPT !.id = 0]]

\* C6 as amended: whatever the order in which the items were added, build
\* produces the same index up to the order of the items that share
\* (beg, end): the same beg, end, inside_max_end and outside_max_end at every
\* rank, the same geometry and model parameters, and for every query the
\* same cost, the same multiset of items and the same sequence of (beg, end).
C6_OrderIrrelevantUpToTies ==
    built # "no" =>
        \A sorted \in BuildOutcomes :
           \E ix \in {IndexOf(sorted)} :
              /\ KeysOf(ix.nodes) = KeysOf(nodes)
              /\ [ix EXCEPT !.nodes = <<>>] = [Ix EXCEPT !.nodes = <<>>]
              /\ \A qbeg \in QPositions, qend \in QPositions :
                    \E a \in {OverlapOf(ix, qbeg, qend)},
                       b \in {OverlapOf(Ix, qbeg, qend)} :
                       /\ a.cost = b.cost
                       /\ KeysOf(a.out) = KeysOf(b.out)
                       /\ BagOfSeq(a.out) = BagOfSeq(b.out)

\* an iitii index of at least three items, two of which share (beg, end) and
\* differ in payload
C6_Witness ==
    /\ built = "iitii" /\ Len(nodes) >= 3
    /\ \E i \in 1..(Len(nodes) - 1) :
          /\ nodes[i].beg = nodes[i + 1].beg /\ nodes[i].end = nodes[i + 1].end
          /\ nodes[i].id # nodes[i + 1].id

RECURSIVE ClimbCostSum(_)
ClimbCostSum(t) ==
    IF t = 0 THEN 0 ELSE threads[t].climb_cost + ClimbCostSum(t - 1)

\* C7: once NumThreads concurrent calls that each took the climb path have
\* all returned, queries has grown by NumThreads and total_climb_cost by the
\* sum of their climb costs.
C7_CountersAtomic ==
    (\A t \in Threads : threads[t].pc = "done" /\ threads[t].path = "climb")
        => /\ queries = NumThreads
           /\ total_climb_cost = ClimbCostSum(NumThreads)

\* the training points of domain d (1..domains) of the index built
PointsOf(d) ==
    TrainingPoints(nodes, 0, 0, 0, d - 1, min_beg,
                   [domains |-> domains, domain_size |-> domain_size])

ZeroVariance(points) ==
    points # <<>> /\ \A i \in 1..Len(points) : points[i][1] = points[1][1]

\* the mean absolute residual of the regression of points is above
\* 2^floor(root_level / 2)
ExcessResidual(points) ==
    /\ points # <<>>
    /\ ResidualSum(points, regress(points))
          > Pow2(root_level \div 2) * Len(points) * regress(points).den

DomainOfLast == 1 + which_domain(last.qbeg, min_beg, domains, domain_size)

\* C9 as claimed: a domain whose training points are empty, have zero
\* variance in beg or have an excessive mean absolute residual is left NaN,
\* and a query whose qbeg falls in it is answered by the root-scan.
C9_DegenerateAbstains ==
    built = "iitii" =>
        \A d \in 1..domains :
           (PointsOf(d) = <<>> \/ ZeroVariance(PointsOf(d))
              \/ ExcessResidual(PointsOf(d)))
              => /\ parameters[d] = NaNModel
                 /\ (Called /\ DomainOfLast = d) => last.path = "root"

\* C9 as amended: a domain whose training points are empty, or whose
\* regression (intercept 0 and slope 0 when the variance in beg is zero) has
\* a mean absolute residual above 2^floor(h/2), is left NaN and a query whose
\* qbeg falls in it is answered by the root-scan; a domain of zero variance
\* whose mean offset is at most 2^floor(h/2) keeps the model (0, 0, level 0)
\* and a query whose qbeg falls in it climbs from leaf 0.
C9_AbstainsOnEmptyOrResidual ==
    built = "iitii" =>
        \A d \in 1..domains :
           \E points \in {PointsOf(d)} :
              /\ (points = <<>> \/ ExcessResidual(points))
                    => /\ parameters[d] = NaNModel
                       /\ (Called /\ DomainOfLast = d) => last.path = "root"
              /\ (ZeroVariance(points) /\ ~ExcessResidual(points))
                    => /\ parameters[d] = [finite |-> TRUE, bnum |-> 0,
                                           mnum |-> 0, den |-> 1, lv |-> 0]
                       /\ (Called /\ DomainOfLast = d)
                             => (last.path = "climb" /\ last.prediction = 0)

\* a query answered by the root-scan because the regression of its domain,
\* over points that differ in beg, was rejected for its residual
C9_Witness ==
    /\ built = "iitii" /\ Called /\ last.path = "root"
    /\ ~ZeroVariance(PointsOf(DomainOfLast))
    /\ ExcessResidual(PointsOf(DomainOfLast))

\* ---------------------------------------------------- augmenting values
Built == built \in {"iit", "iitii"}

RealRanks == 0..(Len(nodes) - 1)

\* the real ranks of the implicit subtree of rank n
SubtreeRanks(n) ==
    {m \in RealRanks : leftmost_child(n) <= m /\ m <= rightmost_child(n)}

SetMax(S) == CHOOSE x \in S : \A y \in S : y <= x

SetMin(S) == CHOOSE x \in S : \A y \in S : x <= y

\* C11: after build, for every N >= 1 and every real rank n,
\* inside_max_end(n) is the maximum end over the real nodes of n's implicit
\* subtree (ranks leftmost_child(n)..rightmost_child(n) below N), also for
\* the nodes of the right border whose right child is imaginary.
C11_InsideMaxEndExact ==
    (Built /\ Len(nodes) >= 1) =>
        \A n \in RealRanks :
           nodes[n + 1].inside_max_end
              = SetMax({nodes[m + 1].end : m \in SubtreeRanks(n)})

\* a built index with a real node of level 2 or more whose right child is
\* imaginary, whose right subtree holds a real node that is no leaf, and
\* whose inside_max_end is an end found in that right subtree only
C11_Witness ==
    /\ Built
    /\ \E n \in RealRanks :
          /\ level(n) >= 2
          /\ right(n) >= Len(nodes)
          /\ \E m \in SubtreeRanks(n) : m > n /\ level(m) >= 1
          /\ \A m \in SubtreeRanks(n) :
                m <= n => nodes[m + 1].end < nodes[n + 1].inside_max_end

\* the ends of the real nodes outside the subtree of n that begin before n
EndsOutsideBefore(n) ==
    {nodes[m + 1].end :
        m \in {k \in RealRanks \ SubtreeRanks(n) :
                 nodes[k + 1].beg < nodes[n + 1].beg}}

\* v stands as minus infinity: it is the value the nodes are constructed
\* with and no position of a query lies below it
MinusInfinity(v) == v = numeric_min /\ \A qbeg \in QPositions : PosLeq(v, qbeg)

\* C12: after an IITII build, for every real rank n, outside_max_end(n) is
\* the maximum end(m) over the real nodes m outside n's subtree with
\* beg(m) < beg(n), and is the minus-infinity sentinel, the minimum Pos
\* value, when there is no such node, also when all the nodes ranked below
\* n's leftmost child tie with n on beg.
C12_OutsideMaxEndExact ==
    built = "iitii" =>
        \A n \in RealRanks :
           IF EndsOutsideBefore(n) # {}
           THEN nodes[n + 1].outside_max_end = SetMax(EndsOutsideBefore(n))
           ELSE MinusInfinity(nodes[n + 1].outside_max_end)

\* C12 for Pos = int32 alone
C12_OutsideMaxEndExactInt32 == pos_type = "int32" => C12_OutsideMaxEndExact

\* an index of int32 positions with a node of a subtree that starts above
\* rank 0, all of whose lower-ranked outside nodes tie with it on beg
C12_TiesReached ==
    /\ built = "iitii" /\ pos_type = "int32"
    /\ \E n \in RealRanks :
          /\ leftmost_child(n) >= 2
          /\ \A m \in 0..(leftmost_child(n) - 1) : nodes[m + 1].beg = nodes[n + 1].beg
          /\ nodes[n + 1].outside_max_end = PosMin

\* the begs of the real nodes outside the subtree of n that begin at or
\* after n
BegsOutsideFrom(n) ==
    {nodes[m + 1].beg :
        m \in {k \in RealRanks \ SubtreeRanks(n) :
                 nodes[k + 1].beg >= nodes[n + 1].beg}}

\* the node ranked just below n's leftmost child has the beg of n
LeftTie(n) ==
    leftmost_child(n) > 0 /\ nodes[leftmost_child(n)].beg = nodes[n + 1].beg

\* C13: for every real rank n of a built IITII index, outside_min_beg(n) is
\* the minimum beg(m) over the real nodes m outside n's subtree with
\* beg(m) >= beg(n), or the plus-infinity sentinel (the maximum Pos) if there
\* is none; also where the node ranked just below n's leftmost child has the
\* beg of n, and where n's rightmost child is imaginary or the last real rank.
C13_OutsideMinBegExact ==
    built = "iitii" =>
        \A n \in RealRanks :
           outside_min_beg(nodes, n)
              = IF BegsOutsideFrom(n) = {} THEN PosMax
                ELSE SetMin(BegsOutsideFrom(n))

\* a built IITII index with a node whose left neighbour ties on beg while the
\* node past its rightmost child begins later, a node with no such tie whose
\* rightmost child is imaginary, and one whose rightmost child is the last
\* real rank
C13_Witness ==
    /\ built = "iitii"
    /\ \E n \in RealRanks :
          /\ LeftTie(n)
          /\ rightmost_child(n) < Len(nodes) - 1
          /\ nodes[rightmost_child(n) + 2].beg > nodes[n + 1].beg
    /\ \E n \in RealRanks :
          ~LeftTie(n) /\ leftmost_child(n) > 0 /\ rightmost_child(n) >= Len(nodes)
    /\ \E n \in RealRanks :
          ~LeftTie(n) /\ leftmost_child(n) > 0 /\ rightmost_child(n) = Len(nodes) - 1

\* ceil(log2(x)) for x >= 1: the least k with 2^k >= x
RECURSIVE CeilLog2From(_, _)
CeilLog2From(k, x) == IF Pow2(k) >= x THEN k ELSE CeilLog2From(k + 1, x)

CeilLog2(x) == CeilLog2From(0, x)

\* the geometry of the smallest complete binary tree holding n nodes
SmallestTree(n) ==
    LET h == CeilLog2(n + 1) - 1
    IN [root_level |-> h, full_size |-> Pow2(h + 1) - 1, root |-> Pow2(h) - 1]

BuiltGeometry == [root_level |-> root_level, full_size |-> full_size, root |-> root]

\* C14: for every node count N >= 1 the geometry computed at build is that
\* of the smallest complete binary tree holding N nodes:
\* root_level = ceil(log2(N+1)) - 1, full_size = 2^(root_level+1) - 1 and
\* root = 2^root_level - 1, so that an index of a single item has
\* root_level 0, full_size 1 and its only node as root.
C14_SmallestCompleteTree ==
    (Built /\ Len(nodes) >= 1) => BuiltGeometry = SmallestTree(Len(nodes))

\* what the loop of the constructor computes: the smallest complete tree
\* from two nodes on, and for a single node a tree of three ranks whose root,
\* rank 1, is imaginary
C14_GeometryOfLoop ==
    (Built /\ Len(nodes) >= 1) =>
        BuiltGeometry = IF Len(nodes) = 1
                        THEN [root_level |-> 1, full_size |-> 3, root |-> 1]
                        ELSE SmallestTree(Len(nodes))

====
